---- MODULE Spec2Model ----
(***************************************************************************)
(* Verification model of cicero's event store (nomad_event.go), its        *)
(* allocation projector (same file), the Run lifecycle service and the     *)
(* Loki log aggregator (run service).                                      *)
(*                                                                         *)
(* The variables fall in groups, one per subsystem.  Each specification    *)
(* drives one subsystem and leaves the others in their initial state:      *)
(*   SpecStore      Save / Update / GetLastNomadEventIndex                 *)
(*   SpecProjector  Save / GetEventAllocationByJobId / GetLatest...        *)
(*   SpecDecode     the projector on a stream with documents that do not   *)
(*                  parse                                                  *)
(*   SpecWorkers    concurrent Save calls of the ingestion workers         *)
(*   SpecRun        Save / End / Cancel of the run service                 *)
(*   SpecLoki       LokiQueryRange against a backend free to answer        *)
(*                  anything                                               *)
(*   SpecLokiStore  LokiQueryRange against a backend that holds one stream *)
(*                  of lines and answers range queries                     *)
(*   SpecLokiFair   LokiQueryRange run to its end, against a backend whose *)
(*                  timestamps advance or never do                         *)
(* The database is taken to be reachable in the store specifications       *)
(* (no connectivity failure); the run service specification models the     *)
(* failure of every statement, of the orchestrator call and of the commit. *)
(***************************************************************************)
EXTENDS Integers, Sequences, FiniteSets, TLC

VARIABLES
    nomad_event,   \* the nomad_event table: a set of rows
    ret,           \* what the last repository call returned to its caller
    saves,         \* history: per uid, the Save calls since the last Update of it
    run,           \* the committed run table: per job, the state of its row
    run_output,    \* the committed run_output table: per job, whether a row exists
    deregistered,  \* the jobs whose deregistration the orchestrator accepted
    call,          \* per job, the run service call at work on it
    lokiPc,        \* LokiQueryRange: "idle", "request" (about to ask a page), "returned"
    from,          \* LokiQueryRange: the start of the next page, in nanoseconds
    output,        \* LokiQueryRange: the LokiOutput it accumulates and returns
    lokiErr,       \* LokiQueryRange: the error it returns
    exchange,      \* history: the page requests issued and what each was answered
    backend,       \* the log backend
    worker         \* per ingestion worker, the Save call it is in

vars == <<nomad_event, ret, saves, run, run_output, deregistered, call,
          lokiPc, from, output, lokiErr, exchange, backend, worker>>

workerVars == <<worker>>

lokiVars == <<lokiPc, from, output, lokiErr, exchange, backend>>

storeVars == <<nomad_event, ret, saves>>

runVars == <<run, run_output, deregistered, call>>

-----------------------------------------------------------------------------
(* Bounds *)

\* rows the table may hold in the store specification
MaxEvents == 2
\* rows the table may hold in the projector specification
MaxAllocEvents == 3
\* jobs the run service works on, each by its own worker
MaxJobs == 2
\* streams in one response of the log backend
MaxStreams == 2
\* ingestion workers that save events at the same time
MaxWorkers == 2
\* event indexes are drawn from 1..MaxIndex
MaxIndex == 3

-----------------------------------------------------------------------------
(* Go and SQL values *)

\* a Go slice: nil, or a (possibly empty) sequence of elements
NilSlice == [isNil |-> TRUE, elems |-> <<>>]

Slice(s) == [isNil |-> FALSE, elems |-> s]

\* a decimal numeral, as text: its digits, most significant first
RECURSIVE ToText(_)
ToText(n) == IF n < 10 THEN <<n>> ELSE Append(ToText(n \div 10), n % 10)

\* text comparison a < b, character by character (a prefix sorts first)
RECURSIVE TextLess(_, _)
TextLess(a, b) ==
    IF b = <<>> THEN FALSE
    ELSE IF a = <<>> THEN TRUE
    ELSE IF Head(a) # Head(b) THEN Head(a) < Head(b)
    ELSE TextLess(Tail(a), Tail(b))

SetMax(S) == CHOOSE x \in S : \A y \in S : y <= x

SetMin(S) == CHOOSE x \in S : \A y \in S : x <= y

-----------------------------------------------------------------------------
(* Event store: nomad_event.go *)

NoUid == <<>>

\* the uid column is generated by the database from the inserted columns
\* (the INSERT of Save names no uid): one uid per event content
Uid(topic, type, key, filter_keys, index, payload) ==
    <<topic, type, key, filter_keys, index, payload>>

\* a freshly inserted row is not handled (column default)
HandledDefault == FALSE

NoReturn ==
    [op |-> "none", uid |-> NoUid, handled |-> FALSE, index |-> 0,
     id |-> "", allocs |-> <<>>, allocsNil |-> TRUE, err |-> "nil"]

\* Save, lines 29-32: a nil FilterKeys is sent as an empty array
FilterKeysArg(event) ==
    IF event.FilterKeys.isNil THEN Slice(<<>>) ELSE event.FilterKeys

\* The row the INSERT of Save proposes.  A nil array is SQL NULL.
Excluded(event, filterKeys) ==
    [uid |-> Uid(event.Topic, event.Type, event.Key, filterKeys.elems,
                 event.Index, event.Payload),
     topic |-> event.Topic, type |-> event.Type, key |-> event.Key,
     filter_keys |-> filterKeys.elems, filter_keys_null |-> filterKeys.isNil,
     index |-> event.Index, payload |-> event.Payload,
     handled |-> HandledDefault]

\* an upsert that overwrites the whole row on conflict, handled included
UpsertTableWholeRow(table, new) ==
    {r \in table : r.uid # new.uid} \cup {new}

\* INSERT ... ON CONFLICT (uid) DO UPDATE SET topic = EXCLUDED.topic:
\* the table after the statement
UpsertTable(table, new) ==
    IF \E r \in table : r.uid = new.uid
    THEN {IF r.uid = new.uid THEN [r EXCEPT !.topic = new.topic] ELSE r : r \in table}
    ELSE table \cup {new}

\* a variant that does nothing on conflict, as the statement's comment warns
\* against: RETURNING then yields no row
UpsertReturningDoNothing(table, new) ==
    IF \E r \in table : r.uid = new.uid
    THEN {}
    ELSE {r \in UpsertTable(table, new) : r.uid = new.uid}

\* RETURNING uid, handled: the rows the statement inserted or updated
UpsertReturning(table, new) ==
    {r \in UpsertTable(table, new) : r.uid = new.uid}

\* a plain INSERT: the second insert of a uid fails on the unique constraint
SaveResultPlainInsert(table, event) ==
    LET new == Excluded(event, FilterKeysArg(event))
    IN  IF \E r \in table : r.uid = new.uid
        THEN [table |-> table, uid |-> NoUid, handled |-> FALSE,
              err |-> "unique violation"]
        ELSE [table |-> table \cup {new}, uid |-> new.uid,
              handled |-> new.handled, err |-> "nil"]

\* nomadEventRepository.Save: QueryRow(...).Scan(&event.Uid, &event.Handled)
SaveResult(table, event) ==
    LET new == Excluded(event, FilterKeysArg(event))
        returned == UpsertReturning(table, new)
    IN  IF new.filter_keys_null
        THEN [table |-> table, uid |-> NoUid, handled |-> FALSE,
              err |-> "not-null violation"]
        ELSE IF returned = {}
        THEN [table |-> UpsertTable(table, new), uid |-> NoUid, handled |-> FALSE,
              err |-> "no rows in result set"]
        ELSE LET row == CHOOSE r \in returned : TRUE
             IN  [table |-> UpsertTable(table, new), uid |-> row.uid,
                  handled |-> row.handled, err |-> "nil"]

\* the uid of the logical event a Save call carries
EventUid(event) ==
    Uid(event.Topic, event.Type, event.Key,
        (IF event.FilterKeys.isNil THEN <<>> ELSE event.FilterKeys.elems),
        event.Index, event.Payload)

SavesOf(u) == IF u \in DOMAIN saves THEN saves[u] ELSE [n |-> 0, rets |-> {}]

Save(event) ==
    LET res == SaveResult(nomad_event, event)
        u == EventUid(event)
        was == SavesOf(u)
    IN  /\ nomad_event' = res.table
        /\ ret' = [NoReturn EXCEPT !.op = "Save", !.uid = res.uid,
                                   !.handled = res.handled, !.err = res.err]
        /\ saves' = [x \in DOMAIN saves \cup {u} |->
                        IF x = u
                        THEN [n |-> IF was.n < 2 THEN was.n + 1 ELSE 2,
                              rets |-> was.rets \cup {<<res.uid, res.handled, res.err>>}]
                        ELSE saves[x]]
        /\ UNCHANGED <<runVars, lokiVars, workerVars>>

\* UPDATE nomad_event SET handled = $2 WHERE uid = $1
UpdateTable(table, uid, handled) ==
    {IF r.uid = uid THEN [r EXCEPT !.handled = handled] ELSE r : r \in table}

\* nomadEventRepository.Update: Exec reports no error when no row matches
Update(uid, handled) ==
    /\ nomad_event' = UpdateTable(nomad_event, uid, handled)
    /\ ret' = [NoReturn EXCEPT !.op = "Update"]
    /\ saves' = [x \in DOMAIN saves \ {uid} |-> saves[x]]
    /\ UNCHANGED <<runVars, lokiVars, workerVars>>

\* SELECT MIN("index"): the oldest event instead of the latest
LastIndexMin(table) ==
    IF table = {} THEN 0 ELSE SetMin({r.index : r \in table})

\* SELECT COALESCE(MAX("index"), 0) FROM nomad_event
LastIndexQuery(table) ==
    IF table = {} THEN 0 ELSE SetMax({r.index : r \in table})

\* nomadEventRepository.GetLastNomadEventIndex
GetLastNomadEventIndex ==
    /\ ret' = [NoReturn EXCEPT !.op = "GetLastNomadEventIndex",
                               !.index = LastIndexQuery(nomad_event)]
    /\ UNCHANGED <<nomad_event, saves>>
    /\ UNCHANGED <<runVars, lokiVars, workerVars>>

-----------------------------------------------------------------------------
(* Allocation projector: nomad_event.go, lines 73-115 *)

\* payload#>>'{Allocation,<field>}' is NULL when the path is absent
HasAllocation(payload) == "Allocation" \in DOMAIN payload

\* payload#>>'{Allocation,JobID}' = $1 (NULL = $1 is not true)
JobIDIs(r, id) == HasAllocation(r.payload) /\ r.payload.Allocation.JobID = id

\* payload#>>'{Allocation,CreateTime}' AS create_time: the number as text
CreateTimeText(r) == ToText(r.payload.Allocation.CreateTime)

\* the sub-select of GetLatestEventAllocationByJobId without its type test:
\* any event of the topic supersedes
NoNewerAnyType(table, r, id) ==
    ~ \E e2 \in table :
        /\ e2.index > r.index
        /\ e2.topic = "Allocation"
        /\ HasAllocation(e2.payload)
        /\ e2.payload.Allocation.ID = r.payload.Allocation.ID
        /\ e2.payload.Allocation.JobID = id

\* GetLatestEventAllocationByJobId, lines 105-113: NOT EXISTS (SELECT NULL
\* FROM nomad_event e2 WHERE ...); the unqualified columns are e2's
NoNewer(table, r, id) ==
    ~ \E e2 \in table :
        /\ e2.index > r.index
        /\ e2.topic = "Allocation"
        /\ e2.type = "AllocationUpdated"
        /\ HasAllocation(e2.payload)
        /\ e2.payload.Allocation.ID = r.payload.Allocation.ID
        /\ e2.payload.Allocation.JobID = id

\* the WHERE clause of getEventAllocationByJobId, lines 80-83
SelectedRows(table, id, latest) ==
    {r \in table :
        /\ JobIDIs(r, id)
        /\ r.topic = "Allocation"
        /\ r.type = "AllocationUpdated"
        /\ (latest => NoNewer(table, r, id))}

\* ORDER BY create_time ASC, a text column: every order of the rows in which
\* no row precedes one of lesser create_time (rows of equal create_time come
\* in any order)
OrderedByCreateTime(rows) ==
    LET n == Cardinality(rows)
    IN  {s \in [1..n -> rows] :
            /\ \A i, j \in 1..n : i # j => s[i] # s[j]
            /\ \A i, j \in 1..n :
                i < j => ~ TextLess(CreateTimeText(s[j]), CreateTimeText(s[i]))}

\* json.Unmarshal of payload->>'Allocation' into a nomad.Allocation: the
\* fields of the struct, read from the document; a negative number does not
\* fit the unsigned ModifyIndex
Unmarshal(doc) ==
    [ok |-> doc.ModifyIndex >= 0,
     value |-> [ID |-> doc.ID, JobID |-> doc.JobID,
                CreateTime |-> doc.CreateTime, ModifyIndex |-> doc.ModifyIndex]]

\* the rows that parse, the others dropped without a word
ResultsOfParsedRows(rows) ==
    LET parsed == SelectSeq(rows, LAMBDA r : Unmarshal(r.payload.Allocation).ok)
    IN  [allocs |-> [i \in 1..Len(parsed) |-> Unmarshal(parsed[i].payload.Allocation).value],
         isNil |-> FALSE, err |-> "nil"]

\* getEventAllocationByJobId, lines 89-96, on the rows in the order selected
Results(rows) ==
    IF \E i \in 1..Len(rows) : ~ Unmarshal(rows[i].payload.Allocation).ok
    THEN [allocs |-> <<>>, isNil |-> TRUE, err |-> "unmarshal"]
    ELSE [allocs |-> [i \in 1..Len(rows) |-> Unmarshal(rows[i].payload.Allocation).value],
          isNil |-> FALSE, err |-> "nil"]

getEventAllocationByJobId(op, id, latest) ==
    \E rows \in OrderedByCreateTime(SelectedRows(nomad_event, id, latest)) :
        /\ ret' = [NoReturn EXCEPT !.op = op, !.id = id,
                                   !.allocs = Results(rows).allocs,
                                   !.allocsNil = Results(rows).isNil,
                                   !.err = Results(rows).err]
        /\ UNCHANGED <<nomad_event, saves>>
        /\ UNCHANGED <<runVars, lokiVars, workerVars>>

GetEventAllocationByJobId(id) ==
    getEventAllocationByJobId("GetEventAllocationByJobId", id, FALSE)

GetLatestEventAllocationByJobId(id) ==
    getEventAllocationByJobId("GetLatestEventAllocationByJobId", id, TRUE)

-----------------------------------------------------------------------------
(* Inputs of the store specification *)

StorePayload == [Job |-> [ID |-> "j1"]]

StoreEvents ==
    [Topic : {"Job"}, Type : {"JobRegistered"}, Key : {"k"},
     FilterKeys : {NilSlice, Slice(<<>>), Slice(<<"f">>)},
     Index : 1..MaxIndex, Payload : {StorePayload}]

StoreUids == {EventUid(e) : e \in StoreEvents}

InitStore ==
    /\ nomad_event = {}
    /\ ret = NoReturn
    /\ saves = <<>>

SaveStore(e) ==
    /\ Cardinality(nomad_event \cup {Excluded(e, FilterKeysArg(e))}) <= MaxEvents
    /\ Save(e)

NextStore ==
    \/ \E e \in StoreEvents : SaveStore(e)
    \/ \E u \in StoreUids, h \in BOOLEAN : Update(u, h)
    \/ GetLastNomadEventIndex


-----------------------------------------------------------------------------
(* Inputs of the projector specification *)

\* the event indexes of the projector's stream
AllocIndexes == {10, 15, 20}

\* allocation identities and their jobs; a1 is also reported under job j2
AllocJobs == {<<"a1", "j1">>, <<"a2", "j1">>, <<"a1", "j2">>}

\* an allocation keeps its creation time over its updates
AllocCreateTime(id) == IF id = "a1" THEN 10 ELSE 9

AllocKinds ==
    {<<"Allocation", "AllocationUpdated">>, <<"Allocation", "AllocationCreated">>,
     <<"Evaluation", "AllocationUpdated">>}

\* the orchestrator reports an allocation at most once per index: the
\* snapshot carries the index as its ModifyIndex
AllocEvents ==
    {[Topic |-> k[1], Type |-> k[2], Key |-> "k", FilterKeys |-> NilSlice,
      Index |-> i,
      Payload |-> [Allocation |-> [ID |-> a[1], JobID |-> a[2],
                                   CreateTime |-> AllocCreateTime(a[1]),
                                   ModifyIndex |-> i]]] :
        k \in AllocKinds, i \in AllocIndexes, a \in AllocJobs}

JobIds == {"j1", "j2"}

\* every event of the stream is delivered once here (SpecStore covers the
\* repeated delivery)
SaveAlloc(e) ==
    /\ Cardinality(nomad_event) < MaxAllocEvents
    /\ \A r \in nomad_event : r.uid # EventUid(e)
    /\ Save(e)

NextProjector ==
    \/ \E e \in AllocEvents : SaveAlloc(e)
    \/ \E id \in JobIds : GetEventAllocationByJobId(id)
    \/ \E id \in JobIds : GetLatestEventAllocationByJobId(id)

\* A stream with allocation documents that do not parse: the updates of
\* index 10 and 20 as above, and between them, at index 15, an update and a
\* creation of every allocation whose document carries a negative ModifyIndex
MalformedEvents ==
    {[Topic |-> "Allocation", Type |-> t, Key |-> "k", FilterKeys |-> NilSlice,
      Index |-> 15,
      Payload |-> [Allocation |-> [ID |-> a[1], JobID |-> a[2],
                                   CreateTime |-> AllocCreateTime(a[1]),
                                   ModifyIndex |-> -1]]] :
        t \in {"AllocationUpdated", "AllocationCreated"}, a \in AllocJobs}

DecodeEvents ==
    {e \in AllocEvents :
        e.Topic = "Allocation" /\ e.Type = "AllocationUpdated" /\ e.Index # 15}
    \cup MalformedEvents

NextDecode ==
    \/ \E e \in DecodeEvents : SaveAlloc(e)
    \/ \E id \in JobIds : GetEventAllocationByJobId(id)
    \/ \E id \in JobIds : GetLatestEventAllocationByJobId(id)



-----------------------------------------------------------------------------
(* Run lifecycle service: runService.Save, End and Cancel *)

Jobs == 1..MaxJobs

\* A call of the run service on job j: the method, the place it has reached,
\* the run and run_output rows of j as its transaction sees them, the error it
\* returns, the step of it that failed, whether a run_output row existed when
\* it began, and whether the orchestrator accepted its deregistration.
Idle ==
    [op |-> "none", pc |-> "done", txRun |-> "none", txOutput |-> FALSE,
     err |-> "nil", failed |-> "none", hadOutput |-> FALSE, accepted |-> FALSE]

\* a transaction begins on the committed rows; the rows of a job are written
\* by one transaction at a time (row locks)
Begin(j, op, pc, err) ==
    /\ call[j].pc = "done"
    /\ call' = [call EXCEPT ![j] =
                  [op |-> op, pc |-> pc, txRun |-> run[j], txOutput |-> run_output[j],
                   err |-> err, failed |-> IF err = "nil" THEN "none" ELSE "begin",
                   hadOutput |-> run_output[j], accepted |-> FALSE]]
    /\ UNCHANGED <<run, run_output, deregistered>>
    /\ UNCHANGED <<storeVars, lokiVars, workerVars>>

Step(j, next) ==
    /\ call' = [call EXCEPT ![j] = next]
    /\ UNCHANGED <<run, run_output, deregistered>>
    /\ UNCHANGED <<storeVars, lokiVars, workerVars>>

\* the caller of Save hands it a new Run and its transaction
BeginSave(j) == run[j] = "none" /\ Begin(j, "Save", "Save.run", "nil")

\* Save, lines 103-105: runRepository.Save(tx, run)
SaveRun(j) ==
    /\ call[j].pc = "Save.run"
    /\ \E ok \in BOOLEAN :
        Step(j, IF ok
                THEN [call[j] EXCEPT !.txRun = "running", !.pc = "Save.output"]
                ELSE [call[j] EXCEPT !.err = "Could not insert Run", !.failed = "insert",
                                     !.pc = "returned"])

\* Save, lines 106-110: runOutputRepository.Save(tx, run.NomadJobID, output)
SaveOutput(j) ==
    /\ call[j].pc = "Save.output"
    /\ \E ok \in BOOLEAN :
        Step(j, IF ok
                THEN [call[j] EXCEPT !.txOutput = TRUE, !.pc = "returned"]
                ELSE [call[j] EXCEPT !.err = "Could not insert Run Output",
                                     !.failed = "insert", !.pc = "returned"])

\* the caller of End hands it a stored Run, marked finished, and its transaction
BeginEnd(j) == run[j] # "none" /\ Begin(j, "End", "End.update", "nil")

\* End that goes on to the delete when the update failed
EndUpdateErrorIgnored(j) ==
    /\ call[j].pc = "End.update"
    /\ \E ok \in BOOLEAN :
        Step(j, IF ok
                THEN [call[j] EXCEPT !.txRun = "finished", !.pc = "End.delete"]
                ELSE [call[j] EXCEPT !.failed = "update", !.pc = "End.delete"])

\* End, lines 124-126: runRepository.Update(tx, run)
EndUpdate(j) ==
    /\ call[j].pc = "End.update"
    /\ \E ok \in BOOLEAN :
        Step(j, IF ok
                THEN [call[j] EXCEPT !.txRun = "finished", !.pc = "End.delete"]
                ELSE [call[j] EXCEPT !.err = "Could not update Run", !.failed = "update",
                                     !.pc = "returned"])

\* End, lines 127-131: runOutputRepository.Delete(tx, run.NomadJobID)
EndDelete(j) ==
    /\ call[j].pc = "End.delete"
    /\ \E ok \in BOOLEAN :
        Step(j, IF ok
                THEN [call[j] EXCEPT !.txOutput = FALSE, !.pc = "returned"]
                ELSE [call[j] EXCEPT !.err = "Could not update Run Output",
                                     !.failed = "delete", !.pc = "returned"])

\* The caller of Save and End owns the transaction: it commits when the call
\* returned nil and rolls back when it returned an error.  A commit that
\* fails commits nothing.
CallerEndsTransaction(j) ==
    /\ call[j].pc = "returned"
    /\ \E ok \in BOOLEAN :
        /\ call' = [call EXCEPT ![j].pc = "done"]
        /\ IF call[j].err = "nil" /\ ok
           THEN /\ run' = [run EXCEPT ![j] = call[j].txRun]
                /\ run_output' = [run_output EXCEPT ![j] = call[j].txOutput]
           ELSE UNCHANGED <<run, run_output>>
    /\ UNCHANGED deregistered
    /\ UNCHANGED <<storeVars, lokiVars, workerVars>>

\* Cancel, line 138: db.BeginFunc begins a transaction and runs the function,
\* or returns the error of the begin
BeginCancel(j) ==
    /\ run[j] # "none"
    /\ \E ok \in BOOLEAN :
        IF ok THEN Begin(j, "Cancel", "Cancel.delete", "nil")
        ELSE Begin(j, "Cancel", "done", "begin failed")

\* Cancel, lines 139-140: runOutputRepository.Delete(tx, run.NomadJobID)
CancelDelete(j) ==
    /\ call[j].pc = "Cancel.delete"
    /\ \E ok \in BOOLEAN :
        Step(j, IF ok
                THEN [call[j] EXCEPT !.txOutput = FALSE, !.pc = "Cancel.deregister"]
                ELSE [call[j] EXCEPT !.err = "delete failed", !.failed = "delete",
                                     !.pc = "Cancel.rollback"])

\* Cancel that lets the function return nil when the deregistration failed
CancelDeregisterErrorIgnored(j) ==
    /\ call[j].pc = "Cancel.deregister"
    /\ \E ok \in BOOLEAN :
        /\ call' = [call EXCEPT ![j] =
                      IF ok
                      THEN [call[j] EXCEPT !.accepted = TRUE, !.pc = "Cancel.commit"]
                      ELSE [call[j] EXCEPT !.failed = "deregister",
                                           !.pc = "Cancel.commit"]]
        /\ deregistered' = IF ok THEN deregistered \cup {j} ELSE deregistered
    /\ UNCHANGED <<run, run_output>>
    /\ UNCHANGED <<storeVars, lokiVars, workerVars>>

\* Cancel, lines 141-144: nomadClient.JobsDeregister(run.NomadJobID, false, ...)
\* inside the transaction
CancelDeregister(j) ==
    /\ call[j].pc = "Cancel.deregister"
    /\ \E ok \in BOOLEAN :
        /\ call' = [call EXCEPT ![j] =
                      IF ok
                      THEN [call[j] EXCEPT !.accepted = TRUE, !.pc = "Cancel.commit"]
                      ELSE [call[j] EXCEPT !.err = "Failed to deregister job",
                                           !.failed = "deregister",
                                           !.pc = "Cancel.rollback"]]
        /\ deregistered' = IF ok THEN deregistered \cup {j} ELSE deregistered
    /\ UNCHANGED <<run, run_output>>
    /\ UNCHANGED <<storeVars, lokiVars, workerVars>>

\* Cancel, lines 145-147: the function returned an error, BeginFunc rolls the
\* transaction back and Cancel returns that error
CancelRollback(j) ==
    /\ call[j].pc = "Cancel.rollback"
    /\ Step(j, [call[j] EXCEPT !.pc = "done"])

\* Cancel, lines 145-149: the function returned nil, BeginFunc commits; Cancel
\* returns the error of a commit that failed, and a failed commit commits nothing
CancelCommit(j) ==
    /\ call[j].pc = "Cancel.commit"
    /\ \E ok \in BOOLEAN :
        /\ call' = [call EXCEPT ![j] =
                      IF ok THEN [call[j] EXCEPT !.pc = "done"]
                      ELSE [call[j] EXCEPT !.err = "commit failed",
                                           !.failed = "commit", !.pc = "done"]]
        /\ IF ok
           THEN /\ run' = [run EXCEPT ![j] = call[j].txRun]
                /\ run_output' = [run_output EXCEPT ![j] = call[j].txOutput]
           ELSE UNCHANGED <<run, run_output>>
    /\ UNCHANGED deregistered
    /\ UNCHANGED <<storeVars, lokiVars, workerVars>>

InitRun ==
    /\ run = [j \in Jobs |-> "none"]
    /\ run_output = [j \in Jobs |-> FALSE]
    /\ deregistered = {}
    /\ call = [j \in Jobs |-> Idle]

NextRun ==
    \E j \in Jobs :
        \/ BeginSave(j)
        \/ SaveRun(j)
        \/ SaveOutput(j)
        \/ BeginEnd(j)
        \/ EndUpdate(j)
        \/ EndDelete(j)
        \/ CallerEndsTransaction(j)
        \/ BeginCancel(j)
        \/ CancelDelete(j)
        \/ CancelDeregister(j)
        \/ CancelRollback(j)
        \/ CancelCommit(j)

-----------------------------------------------------------------------------
(* Log aggregator: runService.LokiQueryRange *)

\* line 168
linesToFetch == 10000

\* line 171
limit == 5000

\* an output whose slices were never made
OutputNotMade == [Stdout |-> NilSlice, Stderr |-> NilSlice]

\* lines 173-176: Stdout and Stderr start as empty slices, not nil
EmptyOutput == [Stdout |-> Slice(<<>>), Stderr |-> Slice(<<>>)]

\* line 167: before the call there is no output, a zero LokiOutput
NilOutput == [Stdout |-> NilSlice, Stderr |-> NilSlice]

\* append(s, lines...), one call per line: a slice appended to is not nil
AppendLines(s, lines) ==
    IF lines = <<>> THEN s ELSE [isNil |-> FALSE, elems |-> s.elems \o lines]

Total(out) == Len(out.Stdout.elems) + Len(out.Stderr.elems)

\* a stream whose label set has any source label
IsStderrAnySource(labels) == "source" \in DOMAIN labels

\* lines 223 and 226: source, ok := stream.Labels.Map()["source"];
\* ok && source == "stderr"
IsStderr(labels) == "source" \in DOMAIN labels /\ labels["source"] = "stderr"

\* line 227, 229
LokiLine(entry) == [Time |-> entry.Timestamp, Text |-> entry.Line]

\* the whole stream, the total looked at only once the stream is through
TakenWholeStream(out, entries) == Len(entries)

\* Lines 225-235: how many entries of a stream the inner loop appends.  It
\* appends one entry, then returns if the total has reached linesToFetch: it
\* stops at the first entry that brings the total to linesToFetch, and goes
\* through the stream when none does.
Taken(out, entries) ==
    LET first == IF linesToFetch - Total(out) > 1
                 THEN linesToFetch - Total(out) ELSE 1
    IN  IF first <= Len(entries) THEN first ELSE Len(entries)

\* the total is never compared with linesToFetch
CappedNever(out, entries) == FALSE

\* lines 232-234: the inner loop returned
Capped(out, entries) ==
    Taken(out, entries) >= 1 /\ Total(out) + Taken(out, entries) >= linesToFetch

\* lines 225-231: the output after the inner loop on one stream
AppendStream(out, stream) ==
    LET lines == [i \in 1..Taken(out, stream.Entries) |-> LokiLine(stream.Entries[i])]
    IN  IF IsStderr(stream.Labels)
        THEN [out EXCEPT !.Stderr = AppendLines(@, lines)]
        ELSE [out EXCEPT !.Stdout = AppendLines(@, lines)]

\* Lines 222-242: for _, stream := range streams, from the k-th stream on.
\* returned: the function returned from inside the loop.
RECURSIVE RangeStreams(_, _, _, _)
RangeStreams(streams, k, out, start) ==
    IF k > Len(streams)
    THEN [output |-> out, from |-> start, returned |-> FALSE]
    ELSE LET stream == streams[k]
             n == Len(stream.Entries)
         IN  IF Capped(out, stream.Entries)
             THEN [output |-> AppendStream(out, stream), from |-> start,
                   returned |-> TRUE]
             ELSE IF n >= limit
             THEN RangeStreams(streams, k + 1, AppendStream(out, stream),
                               stream.Entries[n].Timestamp)
             ELSE [output |-> AppendStream(out, stream), from |-> start,
                   returned |-> TRUE]

\* what the history keeps of a stream: its labels and the number of its entries
Shape(stream) == [Labels |-> stream.Labels, n |-> Len(stream.Entries)]

\* the page request of lines 180-195 and its answer
Exchanged(response) ==
    [start |-> from, limit |-> limit, direction |-> "FORWARD",
     transport |-> response.transport, StatusCode |-> response.StatusCode,
     body |-> response.body,
     streams |-> [k \in 1..Len(response.streams) |-> Shape(response.streams[k])]]

Return(out, err) ==
    /\ lokiPc' = "returned"
    /\ output' = out
    /\ lokiErr' = err
    /\ UNCHANGED from

\* LokiQueryRange, lines 167-176
LokiQueryRange ==
    /\ lokiPc = "idle"
    /\ lokiPc' = "request"
    /\ from' = 0
    /\ output' = EmptyOutput
    /\ UNCHANGED <<lokiErr, exchange, backend>>
    /\ UNCHANGED <<storeVars, runVars, workerVars>>

\* LokiQueryRange, lines 179-243: one turn of the loop, the page request
\* answered by response
LokiPage(response) ==
    /\ lokiPc = "request"
    /\ exchange' = Append(exchange, Exchanged(response))
    /\ IF response.transport # "ok"
       THEN Return(output, "Failed to talk with loki")
       ELSE IF response.StatusCode \div 100 # 2
       THEN Return(output, "Error response from Loki")
       ELSE IF response.body = "garbage"
       THEN Return(output, "unmarshal")
       ELSE IF response.body # "streams"
       THEN Return(output, "Unexpected loki result type")
       ELSE IF Len(response.streams) = 0
       THEN Return(output, "nil")
       ELSE LET r == RangeStreams(response.streams, 1, output, from)
            IN  /\ output' = r.output
                /\ from' = r.from
                /\ lokiPc' = IF r.returned THEN "returned" ELSE "request"
                /\ lokiErr' = "nil"
    /\ UNCHANGED backend
    /\ UNCHANGED <<storeVars, runVars, workerVars>>

-----------------------------------------------------------------------------
(* A log backend free to answer anything *)

LabelSets ==
    {[source |-> "stderr"], [source |-> "stdout"], [nomad_job_id |-> "j"]}

\* the entries a stream may carry: none, one, a full page, more than a page
EntryCounts == {0, 1, limit, limit + 1}

StreamShapes == [Labels : LabelSets, n : EntryCounts]

\* the streams of one response: a stream is the entries of one label set
ShapeSeqs ==
    {shapes \in UNION {[1..k -> StreamShapes] : k \in 0..MaxStreams} :
        \A i, j \in DOMAIN shapes : i # j => shapes[i].Labels # shapes[j].Labels}

\* the k-th stream of the p-th page: its entries follow the requested start,
\* or all carry the start itself when the backend's timestamps do not
\* advance, and each line tells its page, its stream and its place in the
\* stream
FreeStream(p, k, shape, start) ==
    [Labels |-> shape.Labels,
     Entries |-> [i \in 1..shape.n |->
                    [Timestamp |-> IF backend.advances THEN start + i ELSE start,
                     Line |-> <<p, k, i>>]]]

Answer(transport, status, body, streams) ==
    [transport |-> transport, StatusCode |-> status, body |-> body,
     streams |-> streams]

\* what the backend may answer: a transport error, a status, a body that does
\* not decode, a result that is no list of streams, or streams
FreeAnswers ==
    {Answer("error", 0, "garbage", <<>>)}
    \cup {Answer("ok", status, "garbage", <<>>) : status \in {200, 204, 404, 500}}
    \cup {Answer("ok", 200, "matrix", <<>>)}
    \cup {Answer("ok", 200, "streams", shapes) : shapes \in ShapeSeqs}

\* the answer with the entries of its streams
FreeResponse(answer, p, start) ==
    [answer EXCEPT !.streams =
        [k \in 1..Len(answer.streams) |-> FreeStream(p, k, answer.streams[k], start)]]

FreeBackend ==
    [kind |-> "free", lines |-> 0, inclusive |-> FALSE, Labels |-> <<>>,
     advances |-> TRUE]

\* a backend whose entries all carry the time they were asked from
StuckBackend == [FreeBackend EXCEPT !.advances = FALSE]

LokiFreePage ==
    /\ backend.kind = "free"
    /\ \E answer \in FreeAnswers :
          LokiPage(FreeResponse(answer, Len(exchange) + 1, from))

-----------------------------------------------------------------------------
(* A log backend that holds the lines of one stream *)

\* the lines the backend may hold
LineCounts ==
    {0, 1, limit - 1, limit, limit + 1, 6000, linesToFetch - 1, linesToFetch,
     linesToFetch + 1, 15000}

\* line i was logged at time i and reads i
StoredEntry(i) == [Timestamp |-> i, Line |-> i]

\* query_range, direction FORWARD: the first max lines from start on, the
\* line at start among them when the backend's range includes its start
StoreAnswer(b, start, max) ==
    LET lo == IF b.inclusive THEN (IF start < 1 THEN 1 ELSE start) ELSE start + 1
        hi == IF lo + max - 1 < b.lines THEN lo + max - 1 ELSE b.lines
    IN  IF hi < lo THEN Answer("ok", 200, "streams", <<>>)
        ELSE Answer("ok", 200, "streams",
                    <<[Labels |-> b.Labels,
                       Entries |-> [i \in 1..(hi - lo + 1) |-> StoredEntry(lo + i - 1)]]>>)

LokiStorePage ==
    /\ backend.kind = "store"
    /\ LokiPage(StoreAnswer(backend, from, limit))

\* The answers told apart by the number of entries of their streams alone:
\* the k-th stream of an answer is the one of the k-th label set.
LabelSetOf(k) ==
    IF k = 1 THEN [source |-> "stderr"]
    ELSE IF k = 2 THEN [source |-> "stdout"]
    ELSE [nomad_job_id |-> "j"]

CountedAnswers ==
    {answer \in FreeAnswers :
        \A k \in DOMAIN answer.streams : answer.streams[k].Labels = LabelSetOf(k)}

LokiCountedPage ==
    /\ backend.kind = "free"
    /\ \E answer \in CountedAnswers :
          LokiPage(FreeResponse(answer, Len(exchange) + 1, from))

InitLoki ==
    /\ lokiPc = "idle"
    /\ from = 0
    /\ output = NilOutput
    /\ lokiErr = "nil"
    /\ exchange = <<>>

NextLoki == LokiQueryRange \/ LokiFreePage

NextLokiStore == LokiQueryRange \/ LokiStorePage

NextLokiFair == LokiQueryRange \/ LokiCountedPage

-----------------------------------------------------------------------------
(* Ingestion workers: concurrent calls of nomadEventRepository.Save *)

Workers == 1..MaxWorkers

\* the events the workers are delivered: the same logical event with a nil,
\* an empty and a non-empty FilterKeys
WorkerEvents == {e \in StoreEvents : e.Index = 1}

NoCall ==
    [pc |-> "idle", event |-> <<>>, uid |-> NoUid, handled |-> FALSE, err |-> "nil"]

\* Save, lines 28-32: the worker is called with an event
WorkerSave(w, e) ==
    /\ worker[w].pc \in {"idle", "returned"}
    /\ worker' = [worker EXCEPT ![w] = [NoCall EXCEPT !.pc = "called", !.event = e]]
    /\ UNCHANGED <<storeVars, runVars, lokiVars>>

\* Save, lines 33-41: the database runs the statement, one statement at a
\* time on the rows of a uid (the unique index serialises the inserts of a
\* uid); its RETURNING row is on its way to the worker
WorkerQueryRow(w) ==
    /\ worker[w].pc = "called"
    /\ LET res == SaveResult(nomad_event, worker[w].event)
       IN  /\ nomad_event' = res.table
           /\ worker' = [worker EXCEPT ![w].pc = "queried", ![w].uid = res.uid,
                                       ![w].handled = res.handled,
                                       ![w].err = res.err]
    /\ UNCHANGED <<ret, saves>>
    /\ UNCHANGED <<runVars, lokiVars>>

\* Save, lines 42-43: Scan(&event.Uid, &event.Handled), and the return
WorkerScan(w) ==
    /\ worker[w].pc = "queried"
    /\ worker' = [worker EXCEPT ![w].pc = "returned"]
    /\ UNCHANGED <<storeVars, runVars, lokiVars>>

InitWorkers == worker = [w \in Workers |-> NoCall]

NextWorkers ==
    \/ \E w \in Workers, e \in WorkerEvents : WorkerSave(w, e)
    \/ \E w \in Workers : WorkerQueryRow(w)
    \/ \E w \in Workers : WorkerScan(w)
    \/ \E e \in WorkerEvents, h \in BOOLEAN : Update(EventUid(e), h)

-----------------------------------------------------------------------------
(* Specifications *)

Init == InitStore /\ InitRun /\ InitLoki /\ InitWorkers /\ backend = FreeBackend

InitLokiStore ==
    /\ InitStore /\ InitRun /\ InitLoki /\ InitWorkers
    /\ backend \in [kind : {"store"}, lines : LineCounts, inclusive : BOOLEAN,
                    Labels : LabelSets, advances : {TRUE}]

InitLokiAny ==
    /\ InitStore /\ InitRun /\ InitLoki /\ InitWorkers
    /\ backend \in {FreeBackend, StuckBackend}

SpecStore == Init /\ [][NextStore]_vars

SpecProjector == Init /\ [][NextProjector]_vars

SpecDecode == Init /\ [][NextDecode]_vars

SpecRun == Init /\ [][NextRun]_vars

SpecWorkers == Init /\ [][NextWorkers]_vars

SpecLoki == Init /\ [][NextLoki]_vars

SpecLokiStore == InitLokiStore /\ [][NextLokiStore]_vars

\* the call runs on while the backend answers each of its requests
SpecLokiFair == InitLokiAny /\ [][NextLokiFair]_vars /\ WF_vars(NextLokiFair)

-----------------------------------------------------------------------------
(* Claims on the event store *)

RowsOf(u) == {r \in nomad_event : r.uid = u}

\* C1: while no Update of a uid intervenes, the Save calls of that logical
\* event leave exactly one row of that uid, and all of them return without
\* error the same pair: that uid and the handled value of the stored row.
C1_SaveIdempotent ==
    \A u \in DOMAIN saves :
        /\ Cardinality(RowsOf(u)) = 1
        /\ Cardinality(saves[u].rets) = 1
        /\ \A t \in saves[u].rets, r \in RowsOf(u) :
              t = <<u, r.handled, "nil">>

\* the case of C1: an event saved again after it was handled
C1_SavedTwiceHandled ==
    \E u \in DOMAIN saves :
        /\ saves[u].n = 2
        /\ \E r \in RowsOf(u) : r.handled
        /\ ret.op = "Save" /\ ret.uid = u /\ ret.handled

\* the greatest index stored, and 0 for the empty table
IsMaxStoredIndex(n) ==
    IF nomad_event = {} THEN n = 0
    ELSE /\ \E r \in nomad_event : r.index = n
         /\ \A r \in nomad_event : r.index <= n

MaxStoredIndex == CHOOSE n \in 0..MaxIndex : IsMaxStoredIndex(n)

\* C10: GetLastNomadEventIndex returns the greatest stored index, 0 for the
\* empty store; and since every call returns the greatest index of the table
\* it reads, and no step of Save or Update lowers that, a later call never
\* returns less than an earlier one.
C10_LastIndexIsMaxAndMonotonic ==
    /\ [](ret.op = "GetLastNomadEventIndex" => IsMaxStoredIndex(ret.index))
    /\ [][MaxStoredIndex' >= MaxStoredIndex]_vars

\* the case of C10: several events stored, the result above the least index
C10_MaxOfSeveral ==
    /\ ret.op = "GetLastNomadEventIndex"
    /\ Cardinality({r.index : r \in nomad_event}) >= 2
    /\ \E r \in nomad_event : r.index < ret.index
    /\ \E r \in nomad_event : r.handled

-----------------------------------------------------------------------------
(* Claims on the allocation projector *)

\* the AllocationUpdated events of allocation a under job id
AllocUpdates(id, a) ==
    {r \in nomad_event :
        /\ r.topic = "Allocation" /\ r.type = "AllocationUpdated"
        /\ HasAllocation(r.payload)
        /\ r.payload.Allocation.JobID = id
        /\ r.payload.Allocation.ID = a}

AllocIds == {a[1] : a \in AllocJobs}

\* C2: GetLatestEventAllocationByJobId(id) returns without error one snapshot
\* per allocation identity that has an AllocationUpdated event of job id, the
\* snapshot of that identity's event of greatest index, and nothing else.
C2_LatestPerAllocation ==
    ret.op = "GetLatestEventAllocationByJobId" =>
        LET known == {a \in AllocIds : AllocUpdates(ret.id, a) # {}}
        IN  /\ ret.err = "nil"
            /\ Len(ret.allocs) = Cardinality(known)
            /\ \A i \in 1..Len(ret.allocs) : ret.allocs[i].ID \in known
            /\ \A a \in known :
                  LET top == SetMax({r.index : r \in AllocUpdates(ret.id, a)})
                  IN  \E i \in 1..Len(ret.allocs) :
                        \E r \in AllocUpdates(ret.id, a) :
                            /\ r.index = top
                            /\ ret.allocs[i] = r.payload.Allocation

\* the case of C2: a1 of job j1 updated at 10 and then at 15 (or 15 then 10),
\* a later event of a1 that is no update of job j1 stored too, and the call
\* returns the snapshot of index 15
C2_DecoyDoesNotSupersede ==
    /\ ret.op = "GetLatestEventAllocationByJobId" /\ ret.id = "j1"
    /\ Cardinality(AllocUpdates("j1", "a1")) = 2
    /\ \E r \in nomad_event :
          /\ r.index = 20 /\ r.payload.Allocation.ID = "a1"
          /\ r \notin AllocUpdates("j1", "a1")
    /\ Len(ret.allocs) = 1 /\ ret.allocs[1].ModifyIndex = 15

-----------------------------------------------------------------------------
(* Claims on the run service *)

\* C5: a Cancel whose JobsDeregister call failed returns an error, and a
\* run_output row that existed for the job when Cancel began still exists.
C5_CancelRollsBackOnDeregisterFailure ==
    \A j \in Jobs :
        (call[j].op = "Cancel" /\ call[j].pc = "done" /\ call[j].failed = "deregister")
        => /\ call[j].err # "nil"
           /\ call[j].hadOutput => run_output[j]

\* the case of C5: the delete went through, the deregistration failed
C5_DeregisterFailedWithOutput ==
    \E j \in Jobs :
        /\ call[j].op = "Cancel" /\ call[j].pc = "done"
        /\ call[j].failed = "deregister" /\ call[j].hadOutput
        /\ ~ call[j].txOutput

\* C6: after Cancel returned, the run_output row that existed when it began
\* is deleted if and only if the orchestrator accepted the deregistration.
C6_CancelAllOrNothing ==
    \A j \in Jobs :
        (call[j].op = "Cancel" /\ call[j].pc = "done" /\ call[j].hadOutput)
        => (~ run_output[j] <=> call[j].accepted)

\* C7: an End that returns nil has updated the Run and deleted its output in
\* its transaction; an End whose update or delete failed returns an error;
\* and no step of an End changes the committed rows of its job other than to
\* the finished Run without output, both at once.
C7_EndAtomic ==
    /\ [](\A j \in Jobs :
            (call[j].op = "End" /\ call[j].pc \in {"returned", "done"})
            => /\ call[j].err = "nil"
                    => (call[j].txRun = "finished" /\ ~ call[j].txOutput)
               /\ call[j].failed \in {"update", "delete"} => call[j].err # "nil")
    /\ [][\A j \in Jobs :
            call[j].op = "End"
            => \/ (run'[j] = run[j] /\ run_output'[j] = run_output[j])
               \/ (run'[j] = "finished" /\ ~ run_output'[j])]_vars

\* the case of C7: an End committed on a job that had output, while the End
\* of another job failed and left that job's rows as they were
C7_EndCommitted ==
    \E j, k \in Jobs :
        /\ call[j].op = "End" /\ call[j].pc = "done" /\ call[j].err = "nil"
        /\ call[j].hadOutput /\ run[j] = "finished" /\ ~ run_output[j]
        /\ call[k].op = "End" /\ call[k].pc = "done" /\ call[k].failed = "delete"
        /\ run[k] = "running" /\ run_output[k]

-----------------------------------------------------------------------------
(* Claims on the log aggregator *)

\* every page so far was answered with streams, each of them full
FullPages ==
    \A p \in DOMAIN exchange :
        /\ exchange[p].transport = "ok"
        /\ exchange[p].StatusCode = 200
        /\ exchange[p].body = "streams"
        /\ Len(exchange[p].streams) >= 1
        /\ \A k \in DOMAIN exchange[p].streams : exchange[p].streams[k].n >= 5000

\* C3: LokiQueryRange never returns more than 10000 lines in Stdout and
\* Stderr together; once the total is 10000 it has returned and asks no
\* further page; and against a backend that serves full pages it returns
\* exactly 10000 lines without an error.
C3_CappedAtLinesToFetch ==
    /\ Total(output) <= 10000
    /\ Total(output) = 10000 => lokiPc = "returned"
    /\ (lokiPc = "returned" /\ FullPages) =>
            Total(output) = 10000 /\ lokiErr = "nil"

\* the cap is reached in the middle of the stream of the second page, which
\* holds one entry more than the output takes
C3_CapReachedMidStream ==
    /\ lokiPc = "returned"
    /\ FullPages
    /\ Len(exchange) = 2
    /\ exchange[2].streams[1].n = 5001
    /\ Total(output) = 10000

\* the entries an answer carries
Served(x) == IF x.streams = <<>> THEN 0 ELSE x.streams[1].n

\* C4: against a backend that holds L lines of one stream, 5000 <= L < 10000,
\* LokiQueryRange asks exactly two pages and returns: the first from time zero,
\* answered with 5000 entries, the second from the time of the 5000th entry,
\* answered with the remaining L - 5000 entries.
C4_TwoPagesSecondReturnsRemaining ==
    (/\ backend.kind = "store"
     /\ backend.lines >= 5000
     /\ backend.lines < 10000
     /\ lokiPc = "returned") =>
        /\ Len(exchange) = 2
        /\ exchange[1].start = 0
        /\ Served(exchange[1]) = 5000
        /\ exchange[2].start = StoredEntry(5000).Timestamp
        /\ Served(exchange[2]) = backend.lines - 5000

\* the stream's label set has a source label that reads stderr
SourceIsStderr(labels) ==
    \E name \in DOMAIN labels : name = "source" /\ labels[name] = "stderr"

\* the stream a line of the output was received in
StreamOfLine(line) == exchange[line.Text[1]].streams[line.Text[2]]

\* a was received before b: an earlier page, an earlier stream of the page,
\* or an earlier entry of the stream
Before(a, b) ==
    \/ a[1] < b[1]
    \/ a[1] = b[1] /\ a[2] < b[2]
    \/ a[1] = b[1] /\ a[2] = b[2] /\ a[3] < b[3]

InOrderReceived(lines) ==
    \A i \in 1..(Len(lines) - 1) : Before(lines[i].Text, lines[i + 1].Text)

\* C8: every line of Stderr comes from a stream whose source label is
\* stderr, every line of Stdout from a stream whose source label is missing
\* or reads anything else, and each of the two keeps the order in which the
\* lines were received.
C8_ClassifiedBySourceLabel ==
    /\ \A i \in DOMAIN output.Stderr.elems :
            SourceIsStderr(StreamOfLine(output.Stderr.elems[i]).Labels)
    /\ \A i \in DOMAIN output.Stdout.elems :
            ~SourceIsStderr(StreamOfLine(output.Stdout.elems[i]).Labels)
    /\ InOrderReceived(output.Stderr.elems)
    /\ InOrderReceived(output.Stdout.elems)

\* a full page of a stream labelled stderr went to Stderr, then a line of a
\* stream with no source label went to Stdout
C8_StderrThenUnlabelled ==
    /\ lokiPc = "returned"
    /\ Len(exchange) = 2
    /\ Len(exchange[1].streams) = 1
    /\ Len(exchange[2].streams) = 1
    /\ SourceIsStderr(exchange[1].streams[1].Labels)
    /\ "source" \notin DOMAIN exchange[2].streams[1].Labels
    /\ Len(output.Stderr.elems) = 5000
    /\ Len(output.Stdout.elems) = 1

\* the answer decoded to a list of no streams
ZeroStreams(x) ==
    /\ x.transport = "ok"
    /\ x.StatusCode \div 100 = 2
    /\ x.body = "streams"
    /\ x.streams = <<>>

\* C9: when the first page is answered with zero streams, LokiQueryRange
\* has returned after that one request, without an error, an output whose
\* Stdout and Stderr are empty and not nil.
C9_ZeroStreamsEmptyOutput ==
    (Len(exchange) >= 1 /\ ZeroStreams(exchange[1])) =>
        /\ lokiPc = "returned"
        /\ Len(exchange) = 1
        /\ lokiErr = "nil"
        /\ output.Stdout = [isNil |-> FALSE, elems |-> <<>>]
        /\ output.Stderr = [isNil |-> FALSE, elems |-> <<>>]

C9_FirstPageZeroStreams ==
    /\ lokiPc = "returned"
    /\ Len(exchange) = 1
    /\ ZeroStreams(exchange[1])

-----------------------------------------------------------------------------
(* Further claims on the event store *)

\* C12: an Update for a uid that has no stored row returns an error and
\* leaves the store as it was.
C12_UpdateOfMissingRowFails ==
    [][\A u \in StoreUids, h \in BOOLEAN :
          (Update(u, h) /\ \A r \in nomad_event : r.uid # u) =>
              (ret'.err # "nil" /\ nomad_event' = nomad_event)]_vars

\* the columns of a row that are written at its insert
Written(r) == <<r.topic, r.type, r.key, r.filter_keys, r.index, r.payload>>

\* C14: every step keeps every stored row, one row per uid, with the topic,
\* type, key, filter_keys, index and payload it has; a row's handled changes
\* only in an Update of its uid, never in a Save.
C14_AppendOnly ==
    [][\A r \in nomad_event :
          /\ Cardinality({r2 \in nomad_event' : r2.uid = r.uid}) = 1
          /\ \A r2 \in nomad_event' :
                r2.uid = r.uid =>
                    /\ Written(r2) = Written(r)
                    /\ r2.handled # r.handled =>
                            \E h \in BOOLEAN : Update(r.uid, h)]_vars

\* a handled event was saved again and returned handled, then another event
\* was saved next to it
C14_HandledRowSavedAgain ==
    /\ ret.op = "Save"
    /\ ret.err = "nil"
    /\ ~ ret.handled
    /\ Cardinality(nomad_event) = 2
    /\ \E r \in nomad_event :
            /\ r.handled
            /\ r.uid \in DOMAIN saves
            /\ <<r.uid, TRUE, "nil">> \in saves[r.uid].rets

\* C13: whatever the interleaving of the workers' Save calls, a uid never has
\* more than one row; the statement of a Save succeeds and returns the uid
\* of its event and the handled value the row of that uid has right then;
\* and the call returns what the statement returned.
C13_ConcurrentSave ==
    /\ [](\A r1, r2 \in nomad_event : r1.uid = r2.uid => r1 = r2)
    /\ [](\A w \in Workers :
            worker[w].pc \in {"queried", "returned"} =>
                /\ worker[w].err = "nil"
                /\ worker[w].uid = EventUid(worker[w].event)
                /\ Cardinality({r \in nomad_event : r.uid = worker[w].uid}) = 1)
    /\ [][\A w \in Workers :
            /\ (worker[w].pc = "called" /\ worker'[w].pc = "queried") =>
                    \A r \in nomad_event' :
                        r.uid = EventUid(worker[w].event) =>
                            worker'[w].handled = r.handled
            /\ (worker[w].pc = "queried" /\ worker'[w].pc = "returned") =>
                    /\ worker'[w].uid = worker[w].uid
                    /\ worker'[w].handled = worker[w].handled
                    /\ worker'[w].err = worker[w].err]_vars

\* two workers are in Save for the same uid at once, one with a nil and
\* one with an empty FilterKeys: both statements have run, neither call has
\* returned, and the row is handled
C13_TwoSavesInFlight ==
    /\ worker[1].pc = "queried"
    /\ worker[2].pc = "queried"
    /\ worker[1].event # worker[2].event
    /\ worker[1].uid = worker[2].uid
    /\ worker[1].handled /\ worker[2].handled

-----------------------------------------------------------------------------
(* Further claims on the log aggregator *)

\* the page request failed: no answer, a status that is not 2xx, or a body
\* that does not decode
FailedPage(x) ==
    \/ x.transport # "ok"
    \/ x.StatusCode \div 100 # 2
    \/ x.body = "garbage"

\* C11: when a page request fails, LokiQueryRange has returned an error,
\* that request is its last, and no line of an earlier page is in the output
\* that comes with the error.
C11_FailedPageDiscardsOutput ==
    \A p \in DOMAIN exchange :
        FailedPage(exchange[p]) =>
            /\ lokiPc = "returned"
            /\ lokiErr # "nil"
            /\ p = Len(exchange)
            /\ Total(output) = 0

\* the entries of the first k streams of an answer
RECURSIVE EntriesOfStreams(_, _)
EntriesOfStreams(streams, k) ==
    IF k = 0 THEN 0 ELSE EntriesOfStreams(streams, k - 1) + streams[k].n

\* the entries of all streams of the first p answers
RECURSIVE EntriesOfPages(_)
EntriesOfPages(p) ==
    IF p = 0 THEN 0
    ELSE EntriesOfPages(p - 1)
         + EntriesOfStreams(exchange[p].streams, Len(exchange[p].streams))

\* C15: when LokiQueryRange has returned without an error and below the cap
\* of 10000 lines, the output holds the entries of every stream of every
\* answer, and every stream of the last answer had fewer than 5000 entries.
C15_EveryStreamConsumed ==
    (/\ lokiPc = "returned"
     /\ lokiErr = "nil"
     /\ Total(output) < 10000) =>
        /\ Total(output) = EntriesOfPages(Len(exchange))
        /\ \A k \in DOMAIN exchange[Len(exchange)].streams :
                exchange[Len(exchange)].streams[k].n < 5000

\* the lines of the output, Stdout then Stderr
OutputLines == output.Stdout.elems \o output.Stderr.elems

\* C16: against a backend whose range includes the entries at its start, no
\* line of the backend is in the output more than once.
C16_NoLineTwice ==
    (backend.kind = "store" /\ backend.inclusive) =>
        Cardinality({OutputLines[i].Text : i \in DOMAIN OutputLines})
            = Len(OutputLines)

\* C19: LokiQueryRange returns, whatever the backend answers to its
\* requests: a turn of the loop that does not return adds at least 5000
\* lines to the output, and the call has returned with its second request
\* at the latest.
C19_ReturnsWithinTwoRequests ==
    /\ [](Len(exchange) <= 2 /\ (Len(exchange) = 2 => lokiPc = "returned"))
    /\ [][(lokiPc = "request" /\ lokiPc' = "request") =>
                Total(output') >= Total(output) + 5000]_vars
    /\ (lokiPc = "request" ~> lokiPc = "returned")

\* a backend that never advances its timestamps answered two full pages from
\* the same start, and the call returned at the cap
C19_FullPagesFromTheSameStart ==
    /\ ~ backend.advances
    /\ lokiPc = "returned"
    /\ Len(exchange) = 2
    /\ FullPages
    /\ exchange[2].start = exchange[1].start
    /\ Total(output) = 10000

-----------------------------------------------------------------------------
(* Further claims on the allocation projector *)

\* the AllocationUpdated events of job id
JobUpdates(id) == UNION {AllocUpdates(id, a) : a \in AllocIds}

\* r is an update of its allocation that no update of greater index follows
IsLatestUpdate(id, r) ==
    \A r2 \in AllocUpdates(id, r.payload.Allocation.ID) : r2.index <= r.index

\* C17: GetEventAllocationByJobId(id) returns without error one snapshot for
\* every stored AllocationUpdated event of job id and no other, in ascending
\* order of the creation time as a number.
C17_AllUpdatesByNumericCreateTime ==
    ret.op = "GetEventAllocationByJobId" =>
        /\ ret.err = "nil"
        /\ Len(ret.allocs) = Cardinality(JobUpdates(ret.id))
        /\ \A r \in JobUpdates(ret.id) :
                \E i \in 1..Len(ret.allocs) :
                    /\ ret.allocs[i].ID = r.payload.Allocation.ID
                    /\ ret.allocs[i].JobID = ret.id
                    /\ ret.allocs[i].ModifyIndex = r.payload.Allocation.ModifyIndex
        /\ \A i, j \in 1..Len(ret.allocs) :
                i < j => ret.allocs[i].CreateTime <= ret.allocs[j].CreateTime

\* the document does not parse into a nomad.Allocation
Malformed(r) == r.payload.Allocation.ModifyIndex < 0

\* the rows a call answers from
Matching(op, id) ==
    IF op = "GetLatestEventAllocationByJobId"
    THEN {r \in JobUpdates(id) : IsLatestUpdate(id, r)}
    ELSE JobUpdates(id)

\* C18: when the document of a row that matches the call does not parse,
\* GetEventAllocationByJobId and GetLatestEventAllocationByJobId return an
\* error and a nil list, whatever the rows that come before or after it.
C18_ParseFailureFailsTheCall ==
    (/\ ret.op \in {"GetEventAllocationByJobId", "GetLatestEventAllocationByJobId"}
     /\ \E r \in Matching(ret.op, ret.id) : Malformed(r)) =>
        /\ ret.err # "nil"
        /\ ret.allocsNil
        /\ ret.allocs = <<>>

\* the call failed on a row that the order puts after a row that parses
C18_BadRowAfterGoodRow ==
    /\ ret.op = "GetEventAllocationByJobId"
    /\ ret.err # "nil"
    /\ \E bad, good \in Matching(ret.op, ret.id) :
            /\ Malformed(bad)
            /\ ~ Malformed(good)
            /\ TextLess(CreateTimeText(good), CreateTimeText(bad))

====
